---- MODULE Spec2Model ----
(***************************************************************************)
(* The tool-dispatch loop of the Groq code-editing agent (src/main.go):    *)
(* Agent.Run, Agent.runInference, Agent.executeTool and the handlers the   *)
(* loop routes tool calls to.  The completion endpoint, standard input and *)
(* the filesystem are the environment: their answers are nondeterministic. *)
(***************************************************************************)
EXTENDS Integers, Sequences, FiniteSets, TLC

\* ------------------------------------------------------------------ bounds
\* number of lines on standard input before end of stream
MaxInput == 2
\* number of CreateChatCompletion calls explored
MaxRounds == 2
\* number of tool calls one assistant message carries
MaxToolCalls == 2
\* number of handler calls made on one working directory
MaxOps == 2

\* ------------------------------------------------------------- data model
\* openai.ChatMessageRoleUser / Assistant / Tool
RoleUser == "user"
RoleAssistant == "assistant"
RoleTool == "tool"

\* the Name fields of the tools slice built in main, in registry order
tools ==
  << "read_file", "list_files", "edit_file", "create_file", "delete_file",
     "rename_file", "create_folder", "delete_folder", "rename_folder",
     "terminal_run", "create_website" >>

\* raw argument bytes the completion endpoint sends
ArgsPath == "{\"path\":\"a.txt\"}"
ArgsBadType == "{\"path\":1}"

\* the tool calls the completion endpoint asks for, as (name, arguments):
\* a handler that panics on undecodable arguments, called with arguments
\* that decode and with arguments that do not; a handler that returns the
\* decode error; a name that differs from a registered one in case only
ToolRequests ==
  { <<"read_file", ArgsPath>>, <<"read_file", ArgsBadType>>,
    <<"edit_file", ArgsBadType>>, <<"Read_File", ArgsPath>> }

\* json.Unmarshal(input, &v) for a record whose "path" field is a string:
\* the decoded Path, or the decode error
Unmarshal(input) ==
  IF input = ArgsPath
    THEN [err |-> "", Path |-> "a.txt", OldStr |-> "", NewStr |-> ""]
    ELSE [err |-> "json: cannot unmarshal number into Go struct field .path of type string",
          Path |-> "", OldStr |-> "", NewStr |-> ""]

\* outcome of one handler call: the (string, error) pair it returns, or a panic
Returned(s) == [kind |-> "ok", text |-> s]
Failed(msg) == [kind |-> "err", text |-> msg]
Panicked(msg) == [kind |-> "panic", text |-> msg]

\* func ReadFile: panics on a decode error; os.ReadFile answers with the
\* content or with the OS error
ReadFile(input) ==
  LET readFileInput == Unmarshal(input) IN
  IF readFileInput.err # ""
    THEN {Panicked(readFileInput.err)}
    ELSE {Returned("file content"),
          Failed("open a.txt: no such file or directory")}

\* func ListFiles: panics on a decode error; filepath.Walk answers with the
\* listing or with the OS error
ListFiles(input) ==
  LET listFilesInput == Unmarshal(input) IN
  IF listFilesInput.err # ""
    THEN {Panicked(listFilesInput.err)}
    ELSE {Returned("[\"a.txt\"]"),
          Failed("lstat a.txt: no such file or directory")}

\* func EditFile up to its parameter validation: the decode error is
\* returned, and so is the error for an empty path or old_str = new_str
EditFile(input) ==
  LET editFileInput == Unmarshal(input) IN
  IF editFileInput.err # ""
    THEN {Failed(editFileInput.err)}
    ELSE IF editFileInput.Path = "" \/ editFileInput.OldStr = editFileInput.NewStr
      THEN {Failed("invalid input parameters")}
      ELSE {Returned("OK"), Failed("old_str not found in file")}

\* toolDef.Function(input): the handler bound to a registered name
Function(name, input) ==
  CASE name = "read_file" -> ReadFile(input)
    [] name = "list_files" -> ListFiles(input)
    [] name = "edit_file" -> EditFile(input)
    [] OTHER -> {}

\* Agent.tools: the registry, set by NewAgent from the tools slice of main
VARIABLE registry

\* the lookup loop of executeTool: index of the first registry entry whose
\* Name equals name exactly, 0 when there is none
RECURSIVE LookupFrom(_, _)
LookupFrom(name, i) ==
  IF i > Len(registry) THEN 0
  ELSE IF registry[i] = name THEN i
  ELSE LookupFrom(name, i + 1)

\* the lookup comparing names without regard to case
Lookup_EqualFold(name) ==
  LookupFrom(IF name \in {"Read_File", "READ_FILE"} THEN "read_file" ELSE name, 1)

Lookup(name) == LookupFrom(name, 1)

\* executeTool with the lookup failure answered by an empty string
executeTool_NotFoundEmpty(id, name, input) ==
  IF Lookup(name) = 0
    THEN {[kind |-> "ret", text |-> "", called |-> FALSE, failed |-> FALSE]}
    ELSE {[kind |-> IF o.kind = "panic" THEN "panic" ELSE "ret",
           text |-> o.text, called |-> TRUE, failed |-> o.kind = "err"]
            : o \in Function(name, input)}

\* executeTool returning response (empty on failure) without looking at err
executeTool_DropError(id, name, input) ==
  IF Lookup(name) = 0
    THEN {[kind |-> "ret", text |-> "tool not found", called |-> FALSE, failed |-> FALSE]}
    ELSE {[kind |-> IF o.kind = "panic" THEN "panic" ELSE "ret",
           text |-> IF o.kind = "err" THEN "" ELSE o.text,
           called |-> TRUE, failed |-> o.kind = "err"]
            : o \in Function(name, input)}

\* Agent.executeTool: the outcomes of one tool call.  kind "ret" carries the
\* returned string; called tells whether toolDef.Function was invoked and
\* failed whether it returned an error
executeTool(id, name, input) ==
  IF Lookup(name) = 0
    THEN {[kind |-> "ret", text |-> "tool not found", called |-> FALSE, failed |-> FALSE]}
    ELSE {[kind |-> IF o.kind = "panic" THEN "panic" ELSE "ret",
           text |-> o.text, called |-> TRUE, failed |-> o.kind = "err"]
            : o \in Function(name, input)}

\* openai.ChatCompletionMessage values
UserMessage(userInput) ==
  [Role |-> RoleUser, Content |-> userInput, ToolCalls |-> <<>>, ToolCallID |-> 0]

\* the tool message built without its ToolCallID
ToolMessage_NoID(result, id) ==
  [Role |-> RoleTool, Content |-> result, ToolCalls |-> <<>>, ToolCallID |-> 0]

ToolMessage(result, id) ==
  [Role |-> RoleTool, Content |-> result, ToolCalls |-> <<>>, ToolCallID |-> id]

AssistantMessage(content, calls) ==
  [Role |-> RoleAssistant, Content |-> content, ToolCalls |-> calls, ToolCallID |-> 0]

NoMessage == AssistantMessage("", <<>>)

\* a tool message put in front of the tool messages already appended for
\* the same assistant turn
AppendTurn_NewestFirst(conv, m) ==
  IF m.Role = RoleTool /\ conv # <<>> /\ conv[Len(conv)].Role = RoleTool
    THEN SubSeq(conv, 1, Len(conv) - 1) \o <<m, conv[Len(conv)]>>
    ELSE Append(conv, m)

\* conversation = append(conversation, m)
AppendTurn(conv, m) == Append(conv, m)

\* number of tool calls carried by the assistant turns of conv
RECURSIVE CountToolCalls(_)
CountToolCalls(conv) ==
  IF conv = <<>> THEN 0
  ELSE Len(conv[Len(conv)].ToolCalls) + CountToolCalls(SubSeq(conv, 1, Len(conv) - 1))

\* the tool calls of one response: names and arguments chosen by the model,
\* ids fresh (the endpoint numbers its calls)
ToolCallSeqs(conv) ==
  LET base == CountToolCalls(conv) IN
  UNION { { [j \in 1..n |-> [ID |-> base + j, Name |-> f[j][1], Arguments |-> f[j][2]]]
              : f \in [1..n -> ToolRequests] }
          : n \in 1..MaxToolCalls }

\* response.Choices[0].Message of a successful CreateChatCompletion
Responses(conv) ==
  {AssistantMessage("reply", <<>>)}
    \cup {AssistantMessage("", calls) : calls \in ToolCallSeqs(conv)}

\* ------------------------------------------------------------ filesystem
\* A path is the sequence of its components: "" is <<>>, "b/a.txt" is
\* <<"b", "a.txt">>, "." is Dot.  The working directory holds the entries
\* of Universe.
Names == {"a.txt", "b"}

\* the order of the names, as sort.Strings of readDirNames puts them
NameRank(n) == IF n = "a.txt" THEN 1 ELSE 2

Dot == <<".">>

Universe == {<<x>> : x \in Names} \cup {<<x, y>> : x \in Names, y \in Names}

\* file contents and string arguments are sequences of characters
Chars == {"A", "B"}

NoNode == [kind |-> "none", data |-> <<>>]
DirNode == [kind |-> "dir", data |-> <<>>]
FileNode(content) == [kind |-> "file", data |-> content]

IsStrictPrefix(p, q) == Len(p) < Len(q) /\ SubSeq(q, 1, Len(p)) = p

\* path.Dir of a cleaned relative path
PathDir(p) == IF Len(p) <= 1 THEN Dot ELSE SubSeq(p, 1, Len(p) - 1)

\* the entry a path names; the working directory is always there
NodeAt(fs, p) == IF p = Dot THEN DirNode ELSE fs[p]

\* what the kernel answers when it resolves path p: "" when p names an
\* entry, ENOENT when a component is missing, ENOTDIR when a component that
\* is not the last is a regular file
Errno(fs, p) ==
  IF p = Dot THEN ""
  ELSE IF p = <<>> THEN "ENOENT"
  ELSE LET bad == {i \in 1..(Len(p) - 1) : fs[SubSeq(p, 1, i)].kind # "dir"} IN
    IF bad # {}
      THEN LET m == CHOOSE i \in bad : \A j \in bad : i <= j IN
           IF fs[SubSeq(p, 1, m)].kind = "file" THEN "ENOTDIR" ELSE "ENOENT"
      ELSE IF fs[p].kind = "none" THEN "ENOENT" ELSE ""

\* os.Stat(p): the error, "" for none
Stat(fs, p) == Errno(fs, p)

\* the entries below directory p
Below(fs, p) ==
  {q \in Universe : (p = Dot \/ IsStrictPrefix(p, q)) /\ fs[q].kind # "none"}

\* a filesystem is a tree: an entry's parent is a directory
WellFormed(fs) ==
  \A q \in Universe : (fs[q].kind # "none" /\ Len(q) > 1) => fs[PathDir(q)].kind = "dir"

\* os.ReadFile(p)
osReadFile(fs, p) ==
  IF Errno(fs, p) # "" THEN [err |-> Errno(fs, p), data |-> <<>>]
  ELSE IF NodeAt(fs, p).kind = "dir" THEN [err |-> "EISDIR", data |-> <<>>]
  ELSE [err |-> "", data |-> fs[p].data]

\* os.WriteFile opening with O_EXCL: an existing file is not overwritten
osWriteFile_Excl(fs, p, data) ==
  IF p = <<>> THEN [err |-> "ENOENT", fs |-> fs]
  ELSE IF Errno(fs, PathDir(p)) # "" THEN [err |-> Errno(fs, PathDir(p)), fs |-> fs]
  ELSE IF NodeAt(fs, PathDir(p)).kind # "dir" THEN [err |-> "ENOTDIR", fs |-> fs]
  ELSE IF NodeAt(fs, p).kind # "none" THEN [err |-> "EEXIST", fs |-> fs]
  ELSE [err |-> "", fs |-> [fs EXCEPT ![p] = FileNode(data)]]

\* os.WriteFile(p, data, 0644): open with O_WRONLY|O_CREATE|O_TRUNC, write
osWriteFile(fs, p, data) ==
  IF p = <<>> THEN [err |-> "ENOENT", fs |-> fs]
  ELSE IF Errno(fs, PathDir(p)) # "" THEN [err |-> Errno(fs, PathDir(p)), fs |-> fs]
  ELSE IF NodeAt(fs, PathDir(p)).kind # "dir" THEN [err |-> "ENOTDIR", fs |-> fs]
  ELSE IF NodeAt(fs, p).kind = "dir" THEN [err |-> "EISDIR", fs |-> fs]
  ELSE [err |-> "", fs |-> [fs EXCEPT ![p] = FileNode(data)]]

\* os.MkdirAll(p, 0755): nothing to do for a directory; an error when p or
\* one of its ancestors is a regular file; otherwise every missing
\* ancestor and p are created
osMkdirAll(fs, p) ==
  IF p = Dot THEN [err |-> "", fs |-> fs]
  ELSE IF \E i \in 1..Len(p) : fs[SubSeq(p, 1, i)].kind = "file"
    THEN [err |-> "ENOTDIR", fs |-> fs]
    ELSE [err |-> "",
          fs |-> [q \in Universe |->
                    IF q = p \/ IsStrictPrefix(q, p) THEN DirNode ELSE fs[q]]]

\* os.Remove that only unlinks: a directory is refused
osRemove_FilesOnly(fs, p) ==
  IF Errno(fs, p) # "" THEN [err |-> Errno(fs, p), fs |-> fs]
  ELSE IF fs[p].kind = "dir" THEN [err |-> "EISDIR", fs |-> fs]
  ELSE [err |-> "", fs |-> [fs EXCEPT ![p] = NoNode]]

\* os.Remove(p): unlink, or rmdir of an empty directory
osRemove(fs, p) ==
  IF Errno(fs, p) # "" THEN [err |-> Errno(fs, p), fs |-> fs]
  ELSE IF fs[p].kind = "dir" /\ Below(fs, p) # {} THEN [err |-> "ENOTEMPTY", fs |-> fs]
  ELSE [err |-> "", fs |-> [fs EXCEPT ![p] = NoNode]]

\* os.RemoveAll(p): nil when p does not exist (ENOENT), the error when a
\* component of p is a regular file, otherwise p and all below it go
osRemoveAll(fs, p) ==
  IF p = <<>> \/ Errno(fs, p) = "ENOENT" THEN [err |-> "", fs |-> fs]
  ELSE IF Errno(fs, p) # "" THEN [err |-> Errno(fs, p), fs |-> fs]
  ELSE [err |-> "",
        fs |-> [q \in Universe |->
                  IF q = p \/ IsStrictPrefix(p, q) THEN NoNode ELSE fs[q]]]

\* the path an entry q at or below old gets when old is renamed to new
Moved(q, old, new) == new \o SubSeq(q, Len(old) + 1, Len(q))

\* os.Rename(old, new): Go refuses an existing directory as destination
\* (EEXIST) unless it is the source itself, then rename(2) decides
osRename(fs, old, new) ==
  LET eold == Errno(fs, old)
      enew == Errno(fs, new)
      moving == {q \in Universe : (q = old \/ IsStrictPrefix(old, q)) /\ fs[q].kind # "none"}
  IN
  IF enew = "" /\ fs[new].kind = "dir" /\ eold # "" THEN [err |-> eold, fs |-> fs]
  ELSE IF enew = "" /\ fs[new].kind = "dir" /\ new # old THEN [err |-> "EEXIST", fs |-> fs]
  ELSE IF eold # "" THEN [err |-> eold, fs |-> fs]
  ELSE IF Errno(fs, PathDir(new)) # "" THEN [err |-> Errno(fs, PathDir(new)), fs |-> fs]
  ELSE IF NodeAt(fs, PathDir(new)).kind # "dir" THEN [err |-> "ENOTDIR", fs |-> fs]
  ELSE IF new = old THEN [err |-> "", fs |-> fs]
  ELSE IF fs[old].kind = "dir" /\ IsStrictPrefix(old, new) THEN [err |-> "EINVAL", fs |-> fs]
  ELSE IF fs[old].kind = "dir" /\ fs[new].kind = "file" THEN [err |-> "ENOTDIR", fs |-> fs]
  ELSE [err |-> "",
        fs |-> [q \in Universe |->
                  IF \E m \in moving : Moved(m, old, new) = q
                    THEN fs[CHOOSE m \in moving : Moved(m, old, new) = q]
                  ELSE IF q = old \/ IsStrictPrefix(old, q) \/ IsStrictPrefix(new, q)
                    THEN NoNode
                  ELSE fs[q]]]

\* whether renaming old to new keeps every moved entry inside Universe
RenameFits(fs, old, new) ==
  \A q \in Universe :
    ((q = old \/ IsStrictPrefix(old, q)) /\ fs[q].kind # "none") =>
      Moved(q, old, new) \in Universe

\* ------------------------------------------------------------------ strings
\* strings.Index(s, sub): position of the first occurrence, 0 for none
Index(s, sub) ==
  LET hits == {i \in 1..(Len(s) - Len(sub) + 1) : SubSeq(s, i, i + Len(sub) - 1) = sub} IN
  IF hits = {} THEN 0 ELSE CHOOSE i \in hits : \A j \in hits : i <= j

\* strings.Count(s, sub) for a non-empty sub: non-overlapping occurrences
RECURSIVE Count(_, _)
Count(s, sub) ==
  LET i == Index(s, sub) IN
  IF i = 0 THEN 0 ELSE 1 + Count(SubSeq(s, i + Len(sub), Len(s)), sub)

\* the loop of strings.Replace for an empty old: new goes in front of
\* each of the first n - 1 characters, and after the last if n > Len(s)
RECURSIVE ReplaceEmpty(_, _, _)
ReplaceEmpty(s, new, n) ==
  IF n = 0 THEN s
  ELSE IF s = <<>> THEN new
  ELSE new \o <<Head(s)>> \o ReplaceEmpty(Tail(s), new, n - 1)

\* the loop of strings.Replace for a non-empty old: n replacements, each at
\* the next occurrence after the previous one
RECURSIVE ReplaceN(_, _, _, _)
ReplaceN(s, old, new, n) ==
  IF n = 0 THEN s
  ELSE LET i == Index(s, old) IN
       SubSeq(s, 1, i - 1) \o new \o ReplaceN(SubSeq(s, i + Len(old), Len(s)), old, new, n - 1)

\* strings.Replace(s, old, new, 1): the first occurrence only
ReplaceAll_FirstOnly(s, old, new) ==
  IF old = new THEN s
  ELSE IF old = <<>> THEN ReplaceEmpty(s, new, 1)
  ELSE ReplaceN(s, old, new, IF Count(s, old) > 0 THEN 1 ELSE 0)

\* strings.Replace(s, old, new, -1)
ReplaceAll(s, old, new) ==
  IF old = new THEN s
  ELSE IF old = <<>> THEN ReplaceEmpty(s, new, Len(s) + 1)
  ELSE ReplaceN(s, old, new, Count(s, old))


\* ---------------------------------------------------------------- handlers
\* The raw arguments of a tool call are a JSON object, here a record with
\* the fields that are present; Undecodable stands for bytes json.Unmarshal
\* rejects.  A field that is absent decodes to the zero value.
Undecodable == [undecodable |-> TRUE]

DecodeFails(input) == "undecodable" \in DOMAIN input

StrField(input, f) == IF f \in DOMAIN input THEN input[f] ELSE <<>>

\* time.Second, in nanoseconds; also the base of the limbs integers are
\* written in, most significant limb first
Second == 1000000000

\* a Go int (64 bits) of small magnitude: sign and three limbs
Int64(n) == [neg |-> n < 0, mag |-> <<0, 0, IF n < 0 THEN 0 - n ELSE n>>]

IntField(input, f) == IF f \in DOMAIN input THEN input[f] ELSE Int64(0)

\* json.Marshal of a []string: null for the nil slice
Marshal(files) == [null |-> files = <<>>, items |-> files]

NoList == [null |-> FALSE, items |-> <<>>]

\* what a handler hands back: kind "ok" with the result string, kind "err"
\* with the error (text the message of the handler, cause the error of the
\* operating system), kind "panic"; data is a returned file content, list a
\* returned listing
Result(kind, text, cause) ==
  [kind |-> kind, text |-> text, cause |-> cause, data |-> <<>>, list |-> NoList,
   exitCode |-> 0]

NoResult == Result("none", "", "")

JSONError == Result("err", "json: cannot unmarshal", "")

\* os.IsNotExist(err)
IsNotExist(errno) == errno = "ENOENT"

\* func ReadFile
ReadFileOn(fs, input) ==
  IF DecodeFails(input) THEN [res |-> Result("panic", "json: cannot unmarshal", ""), fs |-> fs]
  ELSE LET r == osReadFile(fs, StrField(input, "path")) IN
    IF r.err # "" THEN [res |-> Result("err", "", r.err), fs |-> fs]
    ELSE [res |-> [Result("ok", "", "") EXCEPT !.data = r.data], fs |-> fs]

\* one level of filepath.Walk: the entries of directory p in the order of
\* their names, each followed by what lies below it
RECURSIVE WalkNames(_, _, _)
WalkNames(fs, p, names) ==
  IF names = {} THEN <<>>
  ELSE LET n == CHOOSE x \in names : \A y \in names : NameRank(x) <= NameRank(y)
           q == IF p = Dot THEN <<n>> ELSE Append(p, n)
       IN (IF q \in Universe /\ fs[q].kind # "none"
             THEN <<q>> \o (IF fs[q].kind = "dir" THEN WalkNames(fs, q, Names) ELSE <<>>)
             ELSE <<>>)
          \o WalkNames(fs, p, names \ {n})

\* filepath.Rel(dir, path) for a path below dir, and the "/" of a directory
Entry(fs, dir, q) ==
  [rel |-> IF dir = Dot THEN q ELSE SubSeq(q, Len(dir) + 1, Len(q)),
   slash |-> fs[q].kind = "dir"]

\* func ListFiles
ListFilesOn(fs, input) ==
  IF DecodeFails(input) THEN [res |-> Result("panic", "json: cannot unmarshal", ""), fs |-> fs]
  ELSE LET dir == IF StrField(input, "path") # <<>> THEN StrField(input, "path") ELSE Dot
           walked == IF NodeAt(fs, dir).kind = "dir" THEN WalkNames(fs, dir, Names) ELSE <<>>
           files == [i \in 1..Len(walked) |-> Entry(fs, dir, walked[i])]
       IN IF Errno(fs, dir) # "" THEN [res |-> Result("err", "", Errno(fs, dir)), fs |-> fs]
          ELSE [res |-> [Result("ok", "", "") EXCEPT !.list = Marshal(files)], fs |-> fs]

\* func createNewFile
createNewFile(fs, filePath, content) ==
  LET dir == PathDir(filePath)
      m == IF dir # Dot THEN osMkdirAll(fs, dir) ELSE [err |-> "", fs |-> fs]
      w == osWriteFile(m.fs, filePath, content)
  IN IF m.err # "" THEN [res |-> Result("err", "failed to create directory", m.err), fs |-> m.fs]
     ELSE IF w.err # "" THEN [res |-> Result("err", "failed to create file", w.err), fs |-> w.fs]
     ELSE [res |-> Result("ok", "Successfully created file", ""), fs |-> w.fs]

\* EditFile without the check that the replacement changed the content
EditFileOn_NoNotFound(fs, input) ==
  LET p == StrField(input, "path")
      OldStr == StrField(input, "old_str")
      NewStr == StrField(input, "new_str")
      r == osReadFile(fs, p)
      newContent == ReplaceAll(r.data, OldStr, NewStr)
      w == osWriteFile(fs, p, newContent)
  IN IF DecodeFails(input) THEN [res |-> JSONError, fs |-> fs]
     ELSE IF p = <<>> \/ OldStr = NewStr
       THEN [res |-> Result("err", "invalid input parameters", ""), fs |-> fs]
     ELSE IF r.err # ""
       THEN IF IsNotExist(r.err) /\ OldStr = <<>>
              THEN createNewFile(fs, p, NewStr)
              ELSE [res |-> Result("err", "", r.err), fs |-> fs]
     ELSE IF w.err # "" THEN [res |-> Result("err", "", w.err), fs |-> w.fs]
     ELSE [res |-> Result("ok", "OK", ""), fs |-> w.fs]

\* EditFile creating the file on any missing path, whatever old_str is
EditFileOn_CreateAlways(fs, input) ==
  LET p == StrField(input, "path")
      OldStr == StrField(input, "old_str")
      NewStr == StrField(input, "new_str")
      r == osReadFile(fs, p)
      newContent == ReplaceAll(r.data, OldStr, NewStr)
      w == osWriteFile(fs, p, newContent)
  IN IF DecodeFails(input) THEN [res |-> JSONError, fs |-> fs]
     ELSE IF p = <<>> \/ OldStr = NewStr
       THEN [res |-> Result("err", "invalid input parameters", ""), fs |-> fs]
     ELSE IF r.err # ""
       THEN IF IsNotExist(r.err)
              THEN createNewFile(fs, p, NewStr)
              ELSE [res |-> Result("err", "", r.err), fs |-> fs]
     ELSE IF r.data = newContent /\ OldStr # <<>>
       THEN [res |-> Result("err", "old_str not found in file", ""), fs |-> fs]
     ELSE IF w.err # "" THEN [res |-> Result("err", "", w.err), fs |-> w.fs]
     ELSE [res |-> Result("ok", "OK", ""), fs |-> w.fs]

\* EditFile replacing the whole file when old_str is empty
EditFileOn_Overwrite(fs, input) ==
  LET p == StrField(input, "path")
      OldStr == StrField(input, "old_str")
      NewStr == StrField(input, "new_str")
      r == osReadFile(fs, p)
      newContent == IF OldStr = <<>> THEN NewStr ELSE ReplaceAll(r.data, OldStr, NewStr)
      w == osWriteFile(fs, p, newContent)
  IN IF DecodeFails(input) THEN [res |-> JSONError, fs |-> fs]
     ELSE IF p = <<>> \/ OldStr = NewStr
       THEN [res |-> Result("err", "invalid input parameters", ""), fs |-> fs]
     ELSE IF r.err # ""
       THEN IF IsNotExist(r.err) /\ OldStr = <<>>
              THEN createNewFile(fs, p, NewStr)
              ELSE [res |-> Result("err", "", r.err), fs |-> fs]
     ELSE IF r.data = newContent /\ OldStr # <<>>
       THEN [res |-> Result("err", "old_str not found in file", ""), fs |-> fs]
     ELSE IF w.err # "" THEN [res |-> Result("err", "", w.err), fs |-> w.fs]
     ELSE [res |-> Result("ok", "OK", ""), fs |-> w.fs]

\* func EditFile
EditFileOn(fs, input) ==
  LET p == StrField(input, "path")
      OldStr == StrField(input, "old_str")
      NewStr == StrField(input, "new_str")
      r == osReadFile(fs, p)
      newContent == ReplaceAll(r.data, OldStr, NewStr)
      w == osWriteFile(fs, p, newContent)
  IN IF DecodeFails(input) THEN [res |-> JSONError, fs |-> fs]
     ELSE IF p = <<>> \/ OldStr = NewStr
       THEN [res |-> Result("err", "invalid input parameters", ""), fs |-> fs]
     ELSE IF r.err # ""
       THEN IF IsNotExist(r.err) /\ OldStr = <<>>
              THEN createNewFile(fs, p, NewStr)
              ELSE [res |-> Result("err", "", r.err), fs |-> fs]
     ELSE IF r.data = newContent /\ OldStr # <<>>
       THEN [res |-> Result("err", "old_str not found in file", ""), fs |-> fs]
     ELSE IF w.err # "" THEN [res |-> Result("err", "", w.err), fs |-> w.fs]
     ELSE [res |-> Result("ok", "OK", ""), fs |-> w.fs]

\* func CreateFile
CreateFile(fs, input) ==
  LET p == StrField(input, "path")
      dir == PathDir(p)
      m == IF dir # Dot THEN osMkdirAll(fs, dir) ELSE [err |-> "", fs |-> fs]
      w == osWriteFile(m.fs, p, StrField(input, "content"))
  IN IF DecodeFails(input) THEN [res |-> JSONError, fs |-> fs]
     ELSE IF p = <<>> THEN [res |-> Result("err", "path cannot be empty", ""), fs |-> fs]
     ELSE IF m.err # "" THEN [res |-> Result("err", "failed to create directory", m.err), fs |-> m.fs]
     ELSE IF w.err # "" THEN [res |-> Result("err", "failed to create file", w.err), fs |-> w.fs]
     ELSE [res |-> Result("ok", "Successfully created file", ""), fs |-> w.fs]

\* func DeleteFile
DeleteFile(fs, input) ==
  LET p == StrField(input, "path")
      d == osRemove(fs, p)
  IN IF DecodeFails(input) THEN [res |-> JSONError, fs |-> fs]
     ELSE IF p = <<>> THEN [res |-> Result("err", "path cannot be empty", ""), fs |-> fs]
     ELSE IF IsNotExist(Stat(fs, p))
       THEN [res |-> Result("err", "file does not exist", ""), fs |-> fs]
     ELSE IF d.err # "" THEN [res |-> Result("err", "failed to delete file", d.err), fs |-> d.fs]
     ELSE [res |-> Result("ok", "Successfully deleted file", ""), fs |-> d.fs]

\* func RenameFile
RenameFile(fs, input) ==
  LET OldPath == StrField(input, "old_path")
      NewPath == StrField(input, "new_path")
      dir == PathDir(NewPath)
      m == IF dir # Dot THEN osMkdirAll(fs, dir) ELSE [err |-> "", fs |-> fs]
      r == osRename(m.fs, OldPath, NewPath)
  IN IF DecodeFails(input) THEN [res |-> JSONError, fs |-> fs]
     ELSE IF OldPath = <<>> \/ NewPath = <<>>
       THEN [res |-> Result("err", "both old_path and new_path must be provided", ""), fs |-> fs]
     ELSE IF IsNotExist(Stat(fs, OldPath))
       THEN [res |-> Result("err", "source file does not exist", ""), fs |-> fs]
     ELSE IF m.err # "" THEN [res |-> Result("err", "failed to create directory", m.err), fs |-> m.fs]
     ELSE IF r.err # "" THEN [res |-> Result("err", "failed to rename file", r.err), fs |-> r.fs]
     ELSE [res |-> Result("ok", "Successfully renamed", ""), fs |-> r.fs]

\* func CreateFolder
CreateFolder(fs, input) ==
  LET p == StrField(input, "path")
      m == osMkdirAll(fs, p)
  IN IF DecodeFails(input) THEN [res |-> JSONError, fs |-> fs]
     ELSE IF p = <<>> THEN [res |-> Result("err", "path cannot be empty", ""), fs |-> fs]
     ELSE IF m.err # "" THEN [res |-> Result("err", "failed to create directory", m.err), fs |-> m.fs]
     ELSE [res |-> Result("ok", "Successfully created directory", ""), fs |-> m.fs]

\* DeleteFolder without the os.Stat check
DeleteFolder_NoStat(fs, input) ==
  LET p == StrField(input, "path")
      d == osRemoveAll(fs, p)
  IN IF DecodeFails(input) THEN [res |-> JSONError, fs |-> fs]
     ELSE IF p = <<>> THEN [res |-> Result("err", "path cannot be empty", ""), fs |-> fs]
     ELSE IF d.err # "" THEN [res |-> Result("err", "failed to delete directory", d.err), fs |-> d.fs]
     ELSE [res |-> Result("ok", "Successfully deleted directory", ""), fs |-> d.fs]

\* func DeleteFolder
DeleteFolder(fs, input) ==
  LET p == StrField(input, "path")
      d == osRemoveAll(fs, p)
  IN IF DecodeFails(input) THEN [res |-> JSONError, fs |-> fs]
     ELSE IF p = <<>> THEN [res |-> Result("err", "path cannot be empty", ""), fs |-> fs]
     ELSE IF IsNotExist(Stat(fs, p))
       THEN [res |-> Result("err", "directory does not exist", ""), fs |-> fs]
     ELSE IF d.err # "" THEN [res |-> Result("err", "failed to delete directory", d.err), fs |-> d.fs]
     ELSE [res |-> Result("ok", "Successfully deleted directory", ""), fs |-> d.fs]

\* func RenameFolder
RenameFolder(fs, input) ==
  LET OldPath == StrField(input, "old_path")
      NewPath == StrField(input, "new_path")
      parentDir == PathDir(NewPath)
      m == IF parentDir # Dot THEN osMkdirAll(fs, parentDir) ELSE [err |-> "", fs |-> fs]
      r == osRename(m.fs, OldPath, NewPath)
  IN IF DecodeFails(input) THEN [res |-> JSONError, fs |-> fs]
     ELSE IF OldPath = <<>> \/ NewPath = <<>>
       THEN [res |-> Result("err", "both old_path and new_path must be provided", ""), fs |-> fs]
     ELSE IF IsNotExist(Stat(fs, OldPath))
       THEN [res |-> Result("err", "source directory does not exist", ""), fs |-> fs]
     ELSE IF m.err # ""
       THEN [res |-> Result("err", "failed to create parent directory", m.err), fs |-> m.fs]
     ELSE IF r.err # "" THEN [res |-> Result("err", "failed to rename directory", r.err), fs |-> r.fs]
     ELSE [res |-> Result("ok", "Successfully renamed directory", ""), fs |-> r.fs]

\* the default of TerminalRun's timeout, in seconds
DefaultTimeout == 30

\* TerminalRun's timeout in seconds: the caller's when positive, else the
\* default
EffectiveTimeout(input) ==
  LET Timeout == IntField(input, "timeout")
  IN IF ~Timeout.neg /\ Timeout.mag # <<0, 0, 0>> THEN Timeout.mag
     ELSE <<0, 0, DefaultTimeout>>

\* a < b on limbs of equal length, from limb i on
RECURSIVE LessFrom(_, _, _)
LessFrom(a, b, i) ==
  IF i > Len(a) THEN FALSE
  ELSE IF a[i] # b[i] THEN a[i] < b[i]
  ELSE LessFrom(a, b, i + 1)

\* the borrow limb i takes from the limb before it in a - b
RECURSIVE Borrow(_, _, _)
Borrow(a, b, i) ==
  IF i > Len(a) THEN 0
  ELSE IF a[i] - b[i] - Borrow(a, b, i + 1) < 0 THEN 1 ELSE 0

\* a - b on limbs of equal length, for a >= b
Sub(a, b) ==
  [i \in 1..Len(a) |-> (a[i] - b[i] - Borrow(a, b, i + 1) + Second) % Second]

TwoTo63 == <<0, 9, 223372036, 854775808>>
TwoTo64 == <<0, 18, 446744073, 709551616>>

\* n modulo 2^64
RECURSIVE Mod64(_)
Mod64(n) == IF LessFrom(n, TwoTo64, 1) THEN n ELSE Mod64(Sub(n, TwoTo64))

\* time.Duration(timeout) * time.Second: an int64 product in nanoseconds,
\* which wraps around beyond 2^63 - 1
Duration(timeout) ==
  LET r == Mod64(timeout \o <<0>>)
  IN IF LessFrom(r, TwoTo63, 1) THEN [neg |-> FALSE, mag |-> r]
     ELSE [neg |-> TRUE, mag |-> Sub(TwoTo64, r)]

\* context.WithTimeout with a duration that is not positive returns a
\* context that is already done
Expired(d) == d.neg \/ d.mag = <<0, 0, 0, 0>>

\* the child process of TerminalRun; phase "none" when there is none
NoProc ==
  [phase |-> "none", timeout |-> Duration(<<0, 0, 0>>), exits |-> "never", holder |-> "none",
   exitCode |-> 0, killed |-> FALSE]

\* the result string of TerminalRun: command, exit code, output, and the
\* error of CombinedOutput when there is one
RunResult(exitCode, errText) ==
  [Result("ok", "Command/Exit Code/Output", errText) EXCEPT !.exitCode = exitCode]

\* before the first call
NoOp == [tool |-> "", input |-> [none |-> TRUE]]

\* --------------------------------------------------------------- the state
VARIABLES
  conversation,      \* Run's conversation slice
  readUserInput,     \* Run's readUserInput flag
  assistantMessage,  \* Run's assistantMessage, ranged over by the tool loop
  idx,               \* position of the tool loop in assistantMessage.ToolCalls
  pc,                \* where Run is: "loop", "infer", "tools", "done", "panic"
  ret,               \* what Run returned: "none" while running, then "nil"
  input,             \* lines left on standard input
  calls,             \* CreateChatCompletion calls made so far
  invoked,           \* ids of the tool calls whose handler was invoked, in order
  printed,           \* top-level error messages written to the terminal
  lastEvent,         \* the last thing Run did
  fs,                \* the working directory: what each path of Universe names
  lastOp,            \* the last handler called through Function, and its input
  lastRes,           \* what that handler handed back
  repeated,          \* lastRes.kind of the call before, if it was the same call
  ops,               \* handler calls made so far
  proc,              \* TerminalRun's child process
  request            \* the ChatCompletionRequest of the last CreateChatCompletion

loopVars == << conversation, readUserInput, assistantMessage, idx, pc, ret, input,
               calls, invoked, printed, lastEvent, registry, request >>

toolVars == << fs, lastOp, lastRes, repeated, ops, proc >>

vars == << loopVars, toolVars >>

\* before the first CreateChatCompletion
NoRequest == [Messages |-> <<>>, Tools |-> <<>>]

\* runInference sending the last turn only
runInference_LastTurn(conv) ==
  [Messages |-> IF conv = <<>> THEN conv ELSE <<conv[Len(conv)]>>,
   Tools |-> [i \in 1..Len(registry) |-> [Type |-> "function", Name |-> registry[i]]]]

\* Agent.runInference: the request it hands to CreateChatCompletion, one
\* openai.Tool per entry of a.tools, in order, and the conversation
runInference(conv) ==
  [Messages |-> conv,
   Tools |-> [i \in 1..Len(registry) |-> [Type |-> "function", Name |-> registry[i]]]]

\* the states of the dispatch loop
AwaitingUserInput == pc = "loop" /\ readUserInput
AwaitingCompletion == pc = "infer" \/ (pc = "loop" /\ ~readUserInput)
DispatchingTools == pc = "tools"
Terminated == pc = "done"
Crashed == pc = "panic"

\* main up to agent.Run: an empty conversation, a finite standard input
Init ==
  /\ conversation = <<>>
  /\ readUserInput = TRUE
  /\ assistantMessage = NoMessage
  /\ idx = 0
  /\ pc = "loop"
  /\ ret = "none"
  /\ input \in {[i \in 1..n |-> "hello"] : n \in 0..MaxInput}
  /\ calls = 0
  /\ invoked = <<>>
  /\ printed = 0
  /\ lastEvent = "start"
  /\ registry = tools
  /\ request = NoRequest
  /\ fs = [q \in Universe |-> NoNode]
  /\ lastOp = NoOp
  /\ lastRes = NoResult
  /\ repeated = "no"
  /\ ops = 0
  /\ proc = NoProc

\* getUserMessage without the check of scanner.Scan()
getUserMessage_IgnoreEOF(in) ==
  IF in = <<>> THEN [userInput |-> "", ok |-> TRUE, rest |-> in]
  ELSE [userInput |-> Head(in), ok |-> TRUE, rest |-> Tail(in)]

\* getUserMessage: scanner.Scan() and scanner.Text()
getUserMessage(in) ==
  IF in = <<>> THEN [userInput |-> "", ok |-> FALSE, rest |-> in]
  ELSE [userInput |-> Head(in), ok |-> TRUE, rest |-> Tail(in)]

\* Run, top of the loop with readUserInput set: a line is read and appended
ReadUserLine ==
  /\ pc = "loop" /\ readUserInput
  /\ LET r == getUserMessage(input) IN
       /\ r.ok
       /\ conversation' = AppendTurn(conversation, UserMessage(r.userInput))
       /\ input' = r.rest
  /\ pc' = "infer"
  /\ lastEvent' = "user"
  /\ UNCHANGED << registry, request >>
  /\ UNCHANGED toolVars
  /\ UNCHANGED << readUserInput, assistantMessage, idx, ret, calls, invoked, printed >>

\* Run, top of the loop with readUserInput set: end of input, break, return nil
EndOfInput ==
  /\ pc = "loop" /\ readUserInput
  /\ ~getUserMessage(input).ok
  /\ pc' = "done"
  /\ ret' = "nil"
  /\ lastEvent' = "eof"
  /\ UNCHANGED << registry, request >>
  /\ UNCHANGED toolVars
  /\ UNCHANGED << conversation, readUserInput, assistantMessage, idx, input,
                  calls, invoked, printed >>

\* Run, top of the loop with readUserInput clear: straight to runInference
SkipUserInput ==
  /\ pc = "loop" /\ ~readUserInput
  /\ pc' = "infer"
  /\ UNCHANGED << registry, request >>
  /\ UNCHANGED toolVars
  /\ UNCHANGED << conversation, readUserInput, assistantMessage, idx, ret, input,
                  calls, invoked, printed, lastEvent >>

\* the failure branch taking back the turn that triggered the call
InferenceFailed_Rollback ==
  /\ pc = "infer" /\ calls < MaxRounds
  /\ calls' = calls + 1
  /\ printed' = printed + 1
  /\ readUserInput' = TRUE
  /\ pc' = "loop"
  /\ lastEvent' = "fail"
  /\ conversation' = SubSeq(conversation, 1, Len(conversation) - 1)
  /\ request' = runInference(conversation)
  /\ UNCHANGED registry
  /\ UNCHANGED toolVars
  /\ UNCHANGED << assistantMessage, idx, ret, input, invoked >>

\* the failure branch without readUserInput = true
InferenceFailed_Retry ==
  /\ pc = "infer" /\ calls < MaxRounds
  /\ calls' = calls + 1
  /\ printed' = printed + 1
  /\ pc' = "loop"
  /\ lastEvent' = "fail"
  /\ request' = runInference(conversation)
  /\ UNCHANGED registry
  /\ UNCHANGED toolVars
  /\ UNCHANGED << conversation, readUserInput, assistantMessage, idx, ret, input, invoked >>

\* runInference returned an error: print it, readUserInput = true, continue
InferenceFailed ==
  /\ pc = "infer" /\ calls < MaxRounds
  /\ calls' = calls + 1
  /\ printed' = printed + 1
  /\ readUserInput' = TRUE
  /\ pc' = "loop"
  /\ lastEvent' = "fail"
  /\ request' = runInference(conversation)
  /\ UNCHANGED registry
  /\ UNCHANGED toolVars
  /\ UNCHANGED << conversation, assistantMessage, idx, ret, input, invoked >>

\* runInference returned a response without choices: response.Choices[0]
\* is out of range and the runtime stops the process
InferenceNoChoices ==
  /\ pc = "infer" /\ calls < MaxRounds
  /\ calls' = calls + 1
  /\ printed' = printed + 1
  /\ pc' = "panic"
  /\ lastEvent' = "panic"
  /\ request' = runInference(conversation)
  /\ UNCHANGED registry
  /\ UNCHANGED toolVars
  /\ UNCHANGED << conversation, readUserInput, assistantMessage, idx, ret, input, invoked >>

\* InferenceReplied leaving readUserInput as it is after a text reply
InferenceReplied_KeepFlag ==
  /\ pc = "infer" /\ calls < MaxRounds
  /\ calls' = calls + 1
  /\ \E m \in Responses(conversation) :
       /\ assistantMessage' = m
       /\ conversation' = AppendTurn(conversation, m)
       /\ IF Len(m.ToolCalls) > 0
            THEN /\ pc' = "tools"
                 /\ idx' = 1
            ELSE /\ pc' = "loop"
                 /\ idx' = idx
  /\ lastEvent' = "reply"
  /\ request' = runInference(conversation)
  /\ UNCHANGED registry
  /\ UNCHANGED toolVars
  /\ UNCHANGED << readUserInput, ret, input, invoked, printed >>

\* runInference returned a message: append it, then either enter the tool
\* loop or print the text and ask the user again
InferenceReplied ==
  /\ pc = "infer" /\ calls < MaxRounds
  /\ calls' = calls + 1
  /\ \E m \in Responses(conversation) :
       /\ assistantMessage' = m
       /\ conversation' = AppendTurn(conversation, m)
       /\ IF Len(m.ToolCalls) > 0
            THEN /\ pc' = "tools"
                 /\ idx' = 1
                 /\ UNCHANGED readUserInput
            ELSE /\ pc' = "loop"
                 /\ idx' = idx
                 /\ readUserInput' = TRUE
  /\ lastEvent' = "reply"
  /\ request' = runInference(conversation)
  /\ UNCHANGED registry
  /\ UNCHANGED toolVars
  /\ UNCHANGED << ret, input, invoked, printed >>

\* the tool loop ending with readUserInput = true
DispatchToolCall_AskUser ==
  /\ pc = "tools"
  /\ LET toolCall == assistantMessage.ToolCalls[idx] IN
     \E r \in executeTool(toolCall.ID, toolCall.Name, toolCall.Arguments) :
       /\ invoked' = IF r.called THEN Append(invoked, toolCall.ID) ELSE invoked
       /\ IF r.kind = "panic"
            THEN /\ pc' = "panic"
                 /\ printed' = printed + 1
                 /\ lastEvent' = "panic"
                 /\ UNCHANGED << conversation, idx, readUserInput >>
            ELSE /\ conversation' = AppendTurn(conversation, ToolMessage(r.text, toolCall.ID))
                 /\ lastEvent' = IF r.failed THEN "toolerr"
                                 ELSE IF r.called THEN "tool" ELSE "notfound"
                 /\ printed' = printed
                 /\ IF idx < Len(assistantMessage.ToolCalls)
                      THEN /\ idx' = idx + 1
                           /\ pc' = "tools"
                           /\ UNCHANGED readUserInput
                      ELSE /\ idx' = 0
                           /\ readUserInput' = TRUE
                           /\ pc' = "loop"
  /\ UNCHANGED << registry, request >>
  /\ UNCHANGED toolVars
  /\ UNCHANGED << assistantMessage, ret, input, calls >>

\* one iteration of the tool loop: executeTool, append the tool message;
\* after the last call readUserInput = false and back to the top
DispatchToolCall ==
  /\ pc = "tools"
  /\ LET toolCall == assistantMessage.ToolCalls[idx] IN
     \E r \in executeTool(toolCall.ID, toolCall.Name, toolCall.Arguments) :
       /\ invoked' = IF r.called THEN Append(invoked, toolCall.ID) ELSE invoked
       /\ IF r.kind = "panic"
            THEN /\ pc' = "panic"
                 /\ printed' = printed + 1
                 /\ lastEvent' = "panic"
                 /\ UNCHANGED << conversation, idx, readUserInput >>
            ELSE /\ conversation' = AppendTurn(conversation, ToolMessage(r.text, toolCall.ID))
                 /\ lastEvent' = IF r.failed THEN "toolerr"
                                 ELSE IF r.called THEN "tool" ELSE "notfound"
                 /\ printed' = printed
                 /\ IF idx < Len(assistantMessage.ToolCalls)
                      THEN /\ idx' = idx + 1
                           /\ pc' = "tools"
                           /\ UNCHANGED readUserInput
                      ELSE /\ idx' = 0
                           /\ readUserInput' = FALSE
                           /\ pc' = "loop"
  /\ UNCHANGED << registry, request >>
  /\ UNCHANGED toolVars
  /\ UNCHANGED << assistantMessage, ret, input, calls >>

Next ==
  \/ ReadUserLine
  \/ EndOfInput
  \/ SkipUserInput
  \/ InferenceFailed
  \/ InferenceNoChoices
  \/ InferenceReplied
  \/ DispatchToolCall

Spec == Init /\ [][Next]_vars

TypeOK ==
  /\ pc \in {"loop", "infer", "tools", "done", "panic"}
  /\ readUserInput \in BOOLEAN
  /\ ret \in {"none", "nil"}
  /\ calls \in 0..MaxRounds
  /\ Len(input) <= MaxInput

\* ------------------------------------------------- the handlers at work
\* The handlers called one after the other on one working directory, as
\* the dispatch loop calls them through ToolDefinition.Function.
ArgPaths == {<<"a.txt">>, <<"b">>, <<"b", "a.txt">>, <<"a.txt", "b">>, <<"b", "b">>}

\* a JSON object without any field the handlers know
NoFields == [none |-> TRUE]

PathInputs == {[path |-> p] : p \in ArgPaths \cup {<<>>}} \cup {NoFields, Undecodable}

\* edit_file is tried on a file, a nested file and a path below a file
EditPaths == {<<"a.txt">>, <<"b", "a.txt">>, <<"a.txt", "b">>}

EditInputs ==
  {[path |-> p, old_str |-> o, new_str |-> n] :
     p \in EditPaths \cup {<<>>}, o \in {<<>>, <<"A">>, <<"A", "A">>}, n \in {<<>>, <<"B">>}}
    \cup {[path |-> <<"a.txt">>, old_str |-> <<"A">>], Undecodable}

CreateInputs ==
  {[path |-> p, content |-> c] : p \in ArgPaths \cup {<<>>}, c \in {<<>>, <<"A">>}}
    \cup {[path |-> <<"a.txt">>], Undecodable}

RenameInputs ==
  {[old_path |-> p, new_path |-> q] :
     p \in {<<>>, <<"a.txt">>, <<"b">>, <<"a.txt", "b">>},
     q \in {<<>>, <<"b">>, <<"b", "a.txt">>, <<"b", "b">>}}
    \cup {Undecodable}

TerminalInputs ==
  {[command |-> <<"A">>, timeout |-> t] :
     t \in {Int64(-1), Int64(0), Int64(2),
            [neg |-> FALSE, mag |-> <<0, 10, 0>>],
            [neg |-> FALSE, mag |-> <<0, 18, 446744074>>]}}
    \cup {[command |-> <<"A">>], [command |-> <<>>, timeout |-> Int64(2)], Undecodable}

\* the contents a file of the working directory starts with
InitContents(q) ==
  IF q = <<"a.txt">>
    THEN {<<>>, <<"A">>, <<"A", "B", "A">>, <<"A", "A", "A">>}
    ELSE {<<"A">>}

InitNodes == {NoNode, DirNode} \cup {FileNode(c) : c \in InitContents(<<"a.txt">>)}

InitFS ==
  {f \in [Universe -> InitNodes] :
     /\ WellFormed(f)
     /\ f[<<"a.txt">>].kind # "dir"
     /\ \A q \in Universe : f[q].kind = "file" => f[q].data \in InitContents(q)}

\* the dispatch loop at rest while the handlers are looked at
LoopAtRest ==
  /\ conversation = <<>>
  /\ readUserInput = TRUE
  /\ assistantMessage = NoMessage
  /\ idx = 0
  /\ pc = "loop"
  /\ ret = "none"
  /\ input = <<>>
  /\ calls = 0
  /\ invoked = <<>>
  /\ printed = 0
  /\ lastEvent = "start"
  /\ registry = tools
  /\ request = NoRequest

InitTools ==
  /\ LoopAtRest
  /\ fs \in InitFS
  /\ lastOp = NoOp
  /\ lastRes = NoResult
  /\ repeated = "no"
  /\ ops = 0
  /\ proc = NoProc

\* a handler can be called: the process is alive and not inside a handler
CanCall == ops < MaxOps /\ lastRes.kind # "panic" /\ proc.phase = "none"

\* executeTool calls toolDef.Function(input) and the handler returns
Called(tool, in, out) ==
  /\ CanCall
  /\ fs' = out.fs
  /\ lastRes' = out.res
  /\ lastOp' = [tool |-> tool, input |-> in]
  /\ repeated' = IF lastOp = [tool |-> tool, input |-> in] THEN lastRes.kind ELSE "no"
  /\ ops' = ops + 1
  /\ UNCHANGED proc
  /\ UNCHANGED loopVars

CallReadFile == \E in \in PathInputs : Called("read_file", in, ReadFileOn(fs, in))

CallListFiles == \E in \in PathInputs : Called("list_files", in, ListFilesOn(fs, in))

CallEditFile == \E in \in EditInputs : Called("edit_file", in, EditFileOn(fs, in))

CallCreateFile == \E in \in CreateInputs : Called("create_file", in, CreateFile(fs, in))

CallDeleteFile == \E in \in PathInputs : Called("delete_file", in, DeleteFile(fs, in))

CallRenameFile ==
  \E in \in RenameInputs :
    /\ RenameFits(fs, StrField(in, "old_path"), StrField(in, "new_path"))
    /\ Called("rename_file", in, RenameFile(fs, in))

CallCreateFolder == \E in \in PathInputs : Called("create_folder", in, CreateFolder(fs, in))

CallDeleteFolder == \E in \in PathInputs : Called("delete_folder", in, DeleteFolder(fs, in))

CallRenameFolder ==
  \E in \in RenameInputs :
    /\ RenameFits(fs, StrField(in, "old_path"), StrField(in, "new_path"))
    /\ Called("rename_folder", in, RenameFolder(fs, in))

\* TerminalRun up to cmd.CombinedOutput(): the input is checked, then the
\* shell is started, or fails to start; what the command does afterwards
\* (exits, a child of it keeps the output pipe) is the environment's
CallTerminalRun ==
  \E in \in TerminalInputs :
    \/ /\ DecodeFails(in) \/ StrField(in, "command") = <<>>
       /\ Called("terminal_run", in,
                 [res |-> IF DecodeFails(in) THEN JSONError
                          ELSE Result("err", "command cannot be empty", ""),
                  fs |-> fs])
    \/ /\ ~DecodeFails(in) /\ StrField(in, "command") # <<>>
       /\ Called("terminal_run", in, [res |-> RunResult(-1, "exec: not started"), fs |-> fs])
    \/ /\ ~DecodeFails(in) /\ StrField(in, "command") # <<>>
       /\ Expired(Duration(EffectiveTimeout(in)))
       /\ Called("terminal_run", in,
                 [res |-> RunResult(-1, "context deadline exceeded"), fs |-> fs])
    \/ /\ ~DecodeFails(in) /\ StrField(in, "command") # <<>>
       /\ ~Expired(Duration(EffectiveTimeout(in)))
       /\ CanCall
       /\ \E e \in {"zero", "nonzero", "never"}, h \in {"none", "exits", "forever"} :
            proc' = [phase |-> "running", timeout |-> Duration(EffectiveTimeout(in)), exits |-> e,
                     holder |-> h, exitCode |-> 0, killed |-> FALSE]
       /\ lastOp' = [tool |-> "terminal_run", input |-> in]
       /\ lastRes' = Result("running", "", "")
       /\ repeated' = IF lastOp = [tool |-> "terminal_run", input |-> in]
                        THEN lastRes.kind ELSE "no"
       /\ ops' = ops + 1
       /\ UNCHANGED fs
       /\ UNCHANGED loopVars

\* the shell exits by itself before the timeout
ShellExits ==
  /\ proc.phase = "running" /\ proc.exits # "never"
  /\ proc' = [proc EXCEPT !.phase = "waitpipe",
                          !.exitCode = IF proc.exits = "zero" THEN 0 ELSE 1]
  /\ UNCHANGED << fs, lastOp, lastRes, repeated, ops >>
  /\ UNCHANGED loopVars

\* the context of exec.CommandContext expires: the shell is killed
TimeoutKills ==
  /\ proc.phase = "running"
  /\ proc' = [proc EXCEPT !.phase = "waitpipe", !.exitCode = -1, !.killed = TRUE]
  /\ UNCHANGED << fs, lastOp, lastRes, repeated, ops >>
  /\ UNCHANGED loopVars

\* a child of the shell that kept the output pipe open exits
PipeHolderExits ==
  /\ proc.phase = "waitpipe" /\ proc.holder = "exits"
  /\ proc' = [proc EXCEPT !.holder = "none"]
  /\ UNCHANGED << fs, lastOp, lastRes, repeated, ops >>
  /\ UNCHANGED loopVars

\* TerminalRun returning the error of CombinedOutput instead of a result
TerminalRunReturns_ErrOnFailure ==
  /\ proc.phase = "waitpipe" /\ proc.holder = "none"
  /\ lastRes' = IF proc.exitCode # 0
                  THEN Result("err", "command failed", "exit status 1")
                  ELSE RunResult(0, "")
  /\ proc' = NoProc
  /\ UNCHANGED << fs, lastOp, repeated, ops >>
  /\ UNCHANGED loopVars

\* cmd.CombinedOutput() returns once the shell is gone and the output pipe
\* is closed; TerminalRun formats the result and returns it with a nil error
TerminalRunReturns ==
  /\ proc.phase = "waitpipe" /\ proc.holder = "none"
  /\ lastRes' = RunResult(proc.exitCode,
                          IF proc.killed THEN "signal: killed"
                          ELSE IF proc.exitCode # 0 THEN "exit status 1" ELSE "")
  /\ proc' = NoProc
  /\ UNCHANGED << fs, lastOp, repeated, ops >>
  /\ UNCHANGED loopVars

NextTools ==
  \/ CallReadFile
  \/ CallListFiles
  \/ CallEditFile
  \/ CallCreateFile
  \/ CallDeleteFile
  \/ CallRenameFile
  \/ CallCreateFolder
  \/ CallDeleteFolder
  \/ CallRenameFolder
  \/ CallTerminalRun
  \/ ShellExits
  \/ TimeoutKills
  \/ PipeHolderExits
  \/ TerminalRunReturns

SpecTools == InitTools /\ [][NextTools]_vars

TypeOKTools ==
  /\ \A q \in Universe : fs[q].kind \in {"none", "file", "dir"}
  /\ WellFormed(fs)
  /\ lastRes.kind \in {"none", "ok", "err", "panic", "running"}
  /\ repeated \in {"no", "ok", "err", "none", "running"}
  /\ ops \in 0..MaxOps
  /\ proc.phase \in {"none", "running", "waitpipe"}


\* ------------------------------------------------------------- properties
Last(s) == s[Len(s)]

IsPrefix(s, t) == Len(s) <= Len(t) /\ SubSeq(t, 1, Len(s)) = s

IsToolResult(m) == m.Role = RoleTool
IsAssistant(m) == m.Role = RoleAssistant
IsTextOnly(m) == m.Role = RoleAssistant /\ Len(m.ToolCalls) = 0

\* how many times the handler was invoked for the tool call id
Invocations(id) == Cardinality({k \in 1..Len(invoked) : invoked[k] = id})

\* the tool call the tool loop is at
CurrentCall == assistantMessage.ToolCalls[idx]

\* C1: whenever Run is outside the tool loop, every Assistant turn carrying
\* n >= 1 tool calls is directly followed by exactly n ToolResult turns, the
\* i-th with the id of the i-th request, and the handler of every registered
\* tool it names was invoked exactly once (an unregistered one never).
C1_EveryToolCallAnswered ==
  pc # "tools" =>
    \A i \in 1..Len(conversation) :
      (IsAssistant(conversation[i]) /\ Len(conversation[i].ToolCalls) >= 1) =>
        LET tc == conversation[i].ToolCalls
            n == Len(tc)
        IN /\ i + n <= Len(conversation)
           /\ \A k \in 1..n :
                /\ IsToolResult(conversation[i + k])
                /\ conversation[i + k].ToolCallID = tc[k].ID
                /\ Invocations(tc[k].ID) = IF Lookup(tc[k].Name) = 0 THEN 0 ELSE 1
           /\ (i + n < Len(conversation) => ~IsToolResult(conversation[i + n + 1]))

\* C2: a tool call whose name matches no registered tool gets a ToolResult
\* turn with content "tool not found" and the request's id, no handler is
\* invoked, and the tool loop goes on to the next request if there is one.
C2_UnknownToolNotFound ==
  [][ (pc = "tools" /\ Lookup(CurrentCall.Name) = 0) =>
        /\ conversation' = Append(conversation,
             [Role |-> RoleTool, Content |-> "tool not found",
              ToolCalls |-> <<>>, ToolCallID |-> CurrentCall.ID])
        /\ invoked' = invoked
        /\ IF idx < Len(assistantMessage.ToolCalls)
             THEN pc' = "tools" /\ idx' = idx + 1
             ELSE pc' = "loop" /\ ~readUserInput' ]_vars

C2_Witness ==
  /\ pc = "tools"
  /\ idx = 2
  /\ lastEvent = "notfound"
  /\ Last(conversation).Content = "tool not found"
  /\ Last(conversation).ToolCallID = assistantMessage.ToolCalls[1].ID

\* C3: tool calls are handled in the order received: when the handler of
\* request idx is invoked, the ToolResult turns of requests 1..idx-1 are
\* already the last turns of the conversation, in request order, right
\* after the Assistant turn; ToolResult turns always follow request order.
ResultsInOrder(conv) ==
  \A i \in 1..Len(conv) :
    IsAssistant(conv[i]) =>
      \A k \in 1..Len(conv[i].ToolCalls) :
        (i + k <= Len(conv) /\ \A j \in 1..k : IsToolResult(conv[i + j])) =>
          conv[i + k].ToolCallID = conv[i].ToolCalls[k].ID

C3_ResultsBeforeNextHandler ==
  [][ /\ ResultsInOrder(conversation')
      /\ invoked' # invoked =>
           /\ pc = "tools"
           /\ invoked' = Append(invoked, CurrentCall.ID)
           /\ Len(conversation) >= idx
           /\ conversation[Len(conversation) - idx + 1] = assistantMessage
           /\ \A k \in 1..(idx - 1) :
                /\ IsToolResult(conversation[Len(conversation) - idx + 1 + k])
                /\ conversation[Len(conversation) - idx + 1 + k].ToolCallID
                     = assistantMessage.ToolCalls[k].ID ]_vars

C3_Witness ==
  /\ Len(invoked) >= 2
  /\ Len(conversation) >= 3
  /\ IsToolResult(Last(conversation))
  /\ IsToolResult(conversation[Len(conversation) - 1])
  /\ Last(conversation).ToolCallID = invoked[Len(invoked)]
  /\ conversation[Len(conversation) - 1].ToolCallID = invoked[Len(invoked) - 1]

\* C4 as stated: user input is never solicited while the last turn of the
\* conversation is a ToolResult.
C4_NoInputAfterToolResult ==
  (AwaitingUserInput /\ conversation # <<>>) => ~IsToolResult(Last(conversation))

\* C4 as amended: user input is solicited only with an empty conversation,
\* after a text-only Assistant turn, or right after a failed completion call;
\* after an Assistant turn with tool calls it is not solicited until a later
\* completion call has produced a text-only turn or has failed.
C4_InputOnlyAfterTextOrFailure ==
  AwaitingUserInput =>
    \/ conversation = <<>>
    \/ lastEvent = "fail"
    \/ IsTextOnly(Last(conversation))

C4_Witness ==
  /\ AwaitingUserInput
  /\ Len(conversation) >= 4
  /\ IsTextOnly(Last(conversation))
  /\ IsToolResult(conversation[Len(conversation) - 1])
  /\ IsToolResult(conversation[Len(conversation) - 2])

\* C5: every ToolResult turn's toolCallId is the id of a tool call of the
\* nearest preceding Assistant turn, and only ToolResult turns lie between.
C5_ToolResultMatchesAssistant ==
  \A i \in 1..Len(conversation) :
    IsToolResult(conversation[i]) =>
      \E j \in 1..(i - 1) :
        /\ IsAssistant(conversation[j])
        /\ \A k \in (j + 1)..(i - 1) : IsToolResult(conversation[k])
        /\ \E c \in 1..Len(conversation[j].ToolCalls) :
             conversation[j].ToolCalls[c].ID = conversation[i].ToolCallID

C5_Witness ==
  \E i \in 3..Len(conversation) :
    /\ IsToolResult(conversation[i])
    /\ IsToolResult(conversation[i - 1])
    /\ \E j \in 1..(i - 2) :
         IsAssistant(conversation[j]) /\ Len(conversation[j].ToolCalls) >= 1
           /\ j # i - 2

\* C6: the conversation starts empty and every step of Run leaves the
\* previous conversation as a prefix of the new one.
C6_AppendOnly ==
  /\ conversation = <<>>
  /\ [][IsPrefix(conversation, conversation')]_vars

C6_Witness ==
  /\ lastEvent = "fail"
  /\ Len(conversation) >= 3
  /\ IsToolResult(Last(conversation))

\* C7: when input is solicited and the input source is exhausted, Run
\* returns nil without appending a turn, and after it has returned no turn
\* is appended, no completion call is made and no handler is invoked.
C7_EndOfInputTerminates ==
  [][ /\ (AwaitingUserInput /\ input = <<>>) =>
           /\ pc' = "done" /\ ret' = "nil"
           /\ conversation' = conversation
           /\ calls' = calls /\ invoked' = invoked
      /\ pc = "done" =>
           /\ pc' = "done" /\ ret' = "nil"
           /\ conversation' = conversation
           /\ calls' = calls /\ invoked' = invoked ]_vars

C7_Witness ==
  /\ Terminated
  /\ ret = "nil"
  /\ lastEvent = "eof"
  /\ conversation # <<>>
  /\ ~IsToolResult(Last(conversation))

\* C8: a registered handler that returns an error yields a ToolResult turn
\* whose content is the error's message and whose toolCallId is the
\* request's id, and the loop goes on; a failed completion call and a
\* panic put a message on the terminal; an unregistered name yields a
\* ToolResult turn.  No failure passes without one of them.
ErrorTexts(call) ==
  {o.text : o \in {x \in Function(call.Name, call.Arguments) : x.kind = "err"}}

C9_DecodeFailureRecoverable ==
  [][ (pc = "tools" /\ Lookup(CurrentCall.Name) # 0
         /\ Unmarshal(CurrentCall.Arguments).err # "") =>
        /\ pc' # "panic"
        /\ Len(conversation') = Len(conversation) + 1
        /\ IsToolResult(Last(conversation'))
        /\ Last(conversation').ToolCallID = CurrentCall.ID ]_vars

\* C10: a failed completion call prints the error, leaves the conversation
\* as it was, sets the loop to await user input without returning, and no
\* completion call follows until a user line has been read.
C10_FailureReturnsToUser ==
  [][ /\ lastEvent' = "fail" /\ pc = "infer" =>
           /\ conversation' = conversation
           /\ printed' = printed + 1
           /\ readUserInput'
           /\ pc' = "loop"
           /\ ret' = "none"
           /\ input' = input
      /\ calls' # calls => lastEvent # "fail"
      /\ lastEvent = "fail" =>
           \/ lastEvent' = "user" /\ Len(input') = Len(input) - 1
           \/ lastEvent' = "eof" ]_vars

C10_Witness ==
  /\ lastEvent = "user"
  /\ pc = "infer"
  /\ printed >= 1
  /\ Len(conversation) >= 2
  /\ Last(conversation).Role = RoleUser
  /\ conversation[Len(conversation) - 1].Role = RoleUser

\* ------------------------------------------------ properties of the handlers
\* the call a step of the handlers makes
CallOf(tool, in) == [tool |-> tool, input |-> in]

\* this step is a call of tool with input in
Calls(tool, in) == ops' = ops + 1 /\ lastOp' = CallOf(tool, in)

EditAB(p) == [path |-> p, old_str |-> <<"A">>, new_str |-> <<"B">>]

\* C11: after create_file wrote "A" to a path, edit_file(old_str = "A",
\* new_str = "B") succeeds and the content is "B"; the identical edit_file
\* call made again fails with "old_str not found in file" and the content
\* stays "B".
C11_EditRoundTrip ==
  [][\A p \in ArgPaths :
       /\ (/\ lastOp = CallOf("create_file", [path |-> p, content |-> <<"A">>])
           /\ lastRes.kind = "ok"
           /\ Calls("edit_file", EditAB(p)))
          => (lastRes'.kind = "ok" /\ lastRes'.text = "OK" /\ fs'[p] = FileNode(<<"B">>))
       /\ (/\ lastOp = CallOf("edit_file", EditAB(p))
           /\ lastRes.kind = "ok"
           /\ fs[p] = FileNode(<<"B">>)
           /\ Calls("edit_file", EditAB(p)))
          => (/\ lastRes'.kind = "err"
              /\ lastRes'.text = "old_str not found in file"
              /\ fs' = fs)]_vars

\* the same edit made twice: the first succeeded, the second did not
C11_Witness ==
  /\ \E p \in ArgPaths : lastOp = CallOf("edit_file", EditAB(p)) /\ fs[p] = FileNode(<<"B">>)
  /\ repeated = "ok"
  /\ lastRes.text = "old_str not found in file"

\* the entries of the working directory other than p and the directories
\* on the way to p are the same before and after the step
OnlyTouches(p) ==
  \A q \in Universe : (q # p /\ ~IsStrictPrefix(q, p)) => fs'[q] = fs[q]

\* edit_file made the file p with content new, and the directories above it
CreatedBy(p, new) ==
  /\ lastRes'.kind = "ok"
  /\ fs'[p] = FileNode(new)
  /\ \A q \in Universe : IsStrictPrefix(q, p) => fs'[q] = DirNode
  /\ OnlyTouches(p)

Occurs(s, old) == \E i \in 1..(Len(s) - Len(old) + 1) : SubSeq(s, i, i + Len(old) - 1) = old

\* s with every occurrence of a non-empty old replaced by new, the
\* occurrences taken from the left and not overlapping
RECURSIVE EveryOccurrenceReplaced(_, _, _)
EveryOccurrenceReplaced(s, old, new) ==
  IF ~Occurs(s, old) THEN s
  ELSE LET i == CHOOSE k \in 1..Len(s) :
                  /\ SubSeq(s, k, k + Len(old) - 1) = old
                  /\ \A j \in 1..(k - 1) : SubSeq(s, j, j + Len(old) - 1) # old
       IN SubSeq(s, 1, i - 1) \o new
            \o EveryOccurrenceReplaced(SubSeq(s, i + Len(old), Len(s)), old, new)

\* C13: for an existing file and a non-empty old_str different from
\* new_str, edit_file returns "old_str not found in file" and leaves the
\* file unchanged exactly when old_str does not occur in the content;
\* otherwise it returns "OK" and the new content is the old content with
\* every (non-overlapping, left-to-right) occurrence of old_str replaced
\* by new_str.
C13_ReplacesEveryOccurrence ==
  [][\A in \in EditInputs :
       LET p == StrField(in, "path")
           old == StrField(in, "old_str")
           new == StrField(in, "new_str")
       IN (/\ Calls("edit_file", in)
           /\ ~DecodeFails(in)
           /\ p # <<>> /\ Errno(fs, p) = "" /\ fs[p].kind = "file"
           /\ old # <<>> /\ old # new)
          => IF ~Occurs(fs[p].data, old)
               THEN /\ lastRes'.kind = "err"
                    /\ lastRes'.text = "old_str not found in file"
                    /\ fs' = fs
               ELSE /\ lastRes'.kind = "ok"
                    /\ lastRes'.text = "OK"
                    /\ fs'[p] = FileNode(EveryOccurrenceReplaced(fs[p].data, old, new))
                    /\ fs'[p] # fs[p]
                    /\ \A q \in Universe \ {p} : fs'[q] = fs[q]]_vars

\* edit_file replaced both occurrences of "A" in "ABA"
C13_Witness ==
  /\ lastOp.tool = "edit_file"
  /\ StrField(lastOp.input, "old_str") = <<"A">>
  /\ StrField(lastOp.input, "new_str") = <<"B">>
  /\ lastRes.text = "OK"
  /\ ops = 1
  /\ fs[StrField(lastOp.input, "path")] = FileNode(<<"B", "B", "B">>)

\* C14: rename_file and rename_folder called with a source path that does
\* not exist always return an error and leave the filesystem unchanged:
\* neither the destination nor any of its parent directories is created.
C14_MissingSourceNoEffect ==
  [][\A in \in RenameInputs, tool \in {"rename_file", "rename_folder"} :
       (/\ Calls(tool, in)
        /\ ~DecodeFails(in)
        /\ StrField(in, "old_path") # <<>>
        /\ Errno(fs, StrField(in, "old_path")) # "")
       => (lastRes'.kind = "err" /\ fs' = fs)]_vars

\* the string parameters the schema of a tool lists as required
Required(tool) ==
  CASE tool \in {"read_file", "delete_file", "create_folder", "delete_folder"} -> {"path"}
    [] tool = "edit_file" -> {"path", "old_str", "new_str"}
    [] tool = "create_file" -> {"path", "content"}
    [] tool \in {"rename_file", "rename_folder"} -> {"old_path", "new_path"}
    [] tool = "terminal_run" -> {"command"}
    [] OTHER -> {}

\* a required string parameter is missing or empty, or old_str = new_str
InvalidInput(tool, in) ==
  \/ \E f \in Required(tool) : StrField(in, f) = <<>>
  \/ tool = "edit_file" /\ StrField(in, "old_str") = StrField(in, "new_str")

\* C15: a call of a handler with required parameters in which a required
\* string parameter is missing or empty (or, for edit_file, old_str equals
\* new_str) returns an error, leaves the filesystem unchanged and launches
\* no process.
C15_InvalidInputNoEffect ==
  [][(/\ ops' = ops + 1
      /\ ~DecodeFails(lastOp'.input)
      /\ InvalidInput(lastOp'.tool, lastOp'.input))
     => (lastRes'.kind = "err" /\ fs' = fs /\ proc' = proc)]_vars

\* C16: for any non-empty command, what terminal_run returns is a result
\* string (command, exit code, combined output) and never a handler error,
\* whether the command exits zero, exits non-zero, is killed or could not
\* be started; a handler error comes only from the checks of the input.
C16_TerminalRunReturnsResult ==
  (lastOp.tool = "terminal_run" /\ ~DecodeFails(lastOp.input))
    => /\ (StrField(lastOp.input, "command") # <<>>)
            => (/\ lastRes.kind \in {"running", "ok"}
                /\ lastRes.kind = "ok"
                     => (/\ lastRes.text = "Command/Exit Code/Output"
                         /\ lastRes.exitCode \in {0, 1, -1}
                         /\ (lastRes.exitCode # 0 <=> lastRes.cause # "")))
       /\ (lastRes.kind = "err")
            => (StrField(lastOp.input, "command") = <<>> /\ proc = NoProc)

\* a command that exited non-zero came back as a result string
C16_Witness ==
  /\ lastOp.tool = "terminal_run"
  /\ lastRes.kind = "ok"
  /\ lastRes.exitCode = 1
  /\ lastRes.cause = "exit status 1"

\* C17: once the timeout has killed the shell of terminal_run, the handler
\* can still come back: the output pipe is closed, or will be.  (Stated: the
\* handler always eventually returns, also when children of the shell keep
\* the output pipe open.)
C17_KilledHandlerCanReturn ==
  (proc.phase = "waitpipe" /\ proc.killed)
    => ENABLED (PipeHolderExits \/ TerminalRunReturns)

\* p comes before q in the walk: a directory before what is below it, and
\* the entries of one directory in the order of their names
WalkBefore(p, q) ==
  \/ IsStrictPrefix(p, q)
  \/ \E i \in 1..Len(p) :
       /\ i <= Len(q)
       /\ SubSeq(p, 1, i - 1) = SubSeq(q, 1, i - 1)
       /\ NameRank(p[i]) < NameRank(q[i])

\* the JSON array list_files is to return for directory d: every entry
\* below d in walk order, relative to d, a directory with "/"
Listing(d) ==
  LET E == Below(fs, d)
      at(i) == CHOOSE q \in E : Cardinality({r \in E : WalkBefore(r, q)}) = i - 1
  IN [null |-> FALSE,
      items |-> [i \in 1..Cardinality(E) |->
                   [rel |-> IF d = Dot THEN at(i) ELSE SubSeq(at(i), Len(d) + 1, Len(at(i))),
                    slash |-> fs[at(i)].kind = "dir"]]]

\* the directory a list_files input names: "." when path is absent or empty
ListedDir(in) == IF StrField(in, "path") = <<>> THEN Dot ELSE StrField(in, "path")

\* C18: list_files on an existing directory d returns the JSON-encoded
\* sequence of every entry below d, each as a path relative to d, a
\* directory suffixed with "/", d itself excluded, in walk order; for d
\* holding only the file a.txt and the directory b the result is
\* ["a.txt","b/"]; with path absent or empty it lists ".".
C18_ListsEveryEntry ==
  (lastOp.tool = "list_files" /\ ~DecodeFails(lastOp.input))
    => LET d == ListedDir(lastOp.input) IN
       (Errno(fs, d) = "" /\ NodeAt(fs, d).kind = "dir")
         => /\ lastRes.kind = "ok"
            /\ lastRes.list = Listing(d)
            /\ (\E f \in Universe, g \in Universe :
                  /\ Below(fs, d) = {f, g}
                  /\ PathDir(f) = d /\ PathDir(g) = d
                  /\ f[Len(f)] = "a.txt" /\ fs[f].kind = "file"
                  /\ g[Len(g)] = "b" /\ fs[g].kind = "dir")
                 => lastRes.list.items = << [rel |-> <<"a.txt">>, slash |-> FALSE],
                                            [rel |-> <<"b">>, slash |-> TRUE] >>

\* a file can be written at p: nothing above p is a regular file and p is
\* not a directory
FileFits(p) == fs[p].kind # "dir" /\ \A q \in Universe : IsStrictPrefix(q, p) => fs[q].kind # "file"

\* a directory can be made at p: neither p nor anything above it is a
\* regular file
DirFits(p) == fs[p].kind # "file" /\ \A q \in Universe : IsStrictPrefix(q, p) => fs[q].kind # "file"

\* the step made p the node n, with directories above it, and nothing else
Made(p, n) ==
  /\ lastRes'.kind = "ok"
  /\ fs'[p] = n
  /\ \A q \in Universe : IsStrictPrefix(q, p) => fs'[q] = DirNode
  /\ OnlyTouches(p)

\* C19, as stated: create_file(path, content) succeeds whether or not the
\* file exists, overwriting it and creating missing parent directories,
\* and create_folder(path) succeeds whether or not the directory exists;
\* the same call made again succeeds and leaves the filesystem unchanged.
C19_CreateAlwaysSucceeds ==
  [][/\ \A in \in CreateInputs :
          (Calls("create_file", in) /\ ~DecodeFails(in) /\ StrField(in, "path") # <<>>)
          => /\ Made(StrField(in, "path"), FileNode(StrField(in, "content")))
             /\ lastOp = CallOf("create_file", in) => fs' = fs
     /\ \A in \in PathInputs :
          (Calls("create_folder", in) /\ ~DecodeFails(in) /\ StrField(in, "path") # <<>>)
          => /\ Made(StrField(in, "path"), DirNode)
             /\ lastOp = CallOf("create_folder", in) => fs' = fs]_vars

\* C19, amended: create_file succeeds, overwriting the file and creating
\* missing parent directories, unless the path is a directory or a
\* component above it is a regular file; create_folder succeeds unless the
\* path or a component above it is a regular file; in those cases an error
\* is returned and nothing changes.  The same call made again after a
\* success succeeds and leaves the filesystem unchanged.
C19_CreateIdempotent ==
  [][/\ \A in \in CreateInputs :
          (Calls("create_file", in) /\ ~DecodeFails(in) /\ StrField(in, "path") # <<>>)
          => /\ IF FileFits(StrField(in, "path"))
                  THEN Made(StrField(in, "path"), FileNode(StrField(in, "content")))
                  ELSE lastRes'.kind = "err" /\ fs' = fs
             /\ (lastOp = CallOf("create_file", in) /\ lastRes.kind = "ok")
                  => (lastRes'.kind = "ok" /\ fs' = fs)
     /\ \A in \in PathInputs :
          (Calls("create_folder", in) /\ ~DecodeFails(in) /\ StrField(in, "path") # <<>>)
          => /\ IF DirFits(StrField(in, "path"))
                  THEN Made(StrField(in, "path"), DirNode)
                  ELSE lastRes'.kind = "err" /\ fs' = fs
             /\ (lastOp = CallOf("create_folder", in) /\ lastRes.kind = "ok")
                  => (lastRes'.kind = "ok" /\ fs' = fs)]_vars

\* create_file made twice with the same path below a directory and the
\* same content, both times with success
C19_Witness ==
  /\ lastOp.tool = "create_file"
  /\ Len(StrField(lastOp.input, "path")) = 2
  /\ StrField(lastOp.input, "content") = <<"A">>
  /\ repeated = "ok"
  /\ lastRes.kind = "ok"
  /\ fs[StrField(lastOp.input, "path")] = FileNode(<<"A">>)

\* the step removed p and all below it, and nothing else
Removed(p) ==
  /\ lastRes'.kind = "ok"
  /\ \A q \in Universe :
       fs'[q] = IF q = p \/ IsStrictPrefix(p, q) THEN NoNode ELSE fs[q]

\* the error of delete_file and delete_folder for a path that is not there
DoesNotExist(tool) ==
  IF tool = "delete_file" THEN "file does not exist" ELSE "directory does not exist"

\* C20, as stated: delete_file and delete_folder on a path that does not
\* exist return an error and leave the filesystem unchanged; on an existing
\* target they remove it (delete_folder with all below it), so that the
\* same call made again at once returns the does-not-exist error.
C20_DeleteRemovesTarget ==
  [][\A in \in PathInputs, tool \in {"delete_file", "delete_folder"} :
       (Calls(tool, in) /\ ~DecodeFails(in) /\ StrField(in, "path") # <<>>)
       => /\ IF Errno(fs, StrField(in, "path")) # ""
               THEN lastRes'.kind = "err" /\ fs' = fs
               ELSE Removed(StrField(in, "path"))
          /\ (lastOp = CallOf(tool, in) /\ lastRes.kind = "ok")
               => (lastRes'.kind = "err" /\ lastRes'.text = DoesNotExist(tool) /\ fs' = fs)]_vars

\* C20, amended: as stated, except that delete_file on a directory that is
\* not empty returns an error ("failed to delete file") and leaves it and
\* all below it in place.
C20_DeleteRemovesFileOrTree ==
  [][\A in \in PathInputs, tool \in {"delete_file", "delete_folder"} :
       (Calls(tool, in) /\ ~DecodeFails(in) /\ StrField(in, "path") # <<>>)
       => /\ IF Errno(fs, StrField(in, "path")) # ""
               THEN lastRes'.kind = "err" /\ fs' = fs
             ELSE IF tool = "delete_file" /\ Below(fs, StrField(in, "path")) # {}
               THEN /\ lastRes'.kind = "err"
                    /\ lastRes'.text = "failed to delete file"
                    /\ fs' = fs
             ELSE Removed(StrField(in, "path"))
          /\ (lastOp = CallOf(tool, in) /\ lastRes.kind = "ok")
               => (lastRes'.kind = "err" /\ lastRes'.text = DoesNotExist(tool) /\ fs' = fs)]_vars

\* delete_folder made twice: the tree went, then the path was not there
C20_Witness ==
  /\ lastOp.tool = "delete_folder"
  /\ repeated = "ok"
  /\ lastRes.kind = "err"
  /\ lastRes.text = "directory does not exist"
  /\ \A q \in Universe :
       IsStrictPrefix(StrField(lastOp.input, "path"), q) => fs[q] = NoNode

\* ------------------------------------------- more properties of the loop
\* names a model may ask for that are no registered name: another case,
\* a prefix, an extension, nothing
NearNames == {"Read_File", "READ_FILE", "read", "read_file2", ""}

\* the first position of the registry holding exactly name, 0 for none
FirstExact(name) ==
  IF \E i \in 1..Len(registry) : registry[i] = name
    THEN CHOOSE i \in 1..Len(registry) :
           registry[i] = name /\ \A j \in 1..(i - 1) : registry[j] # name
    ELSE 0

\* C21: the tool registry is fixed after startup: no step adds, removes or
\* reorders its entries, and the lookup returns the first entry whose name
\* equals the requested name exactly (case-sensitive, no prefix or fuzzy
\* match), or not-found otherwise; a handler is invoked for a tool call
\* exactly when some entry has exactly its name.  The lookups of names
\* that no tool call of the model carries are made at startup: the
\* registry being fixed, they give the same in every state.
C21_RegistryFixedLookupExact ==
  /\ \A name \in NearNames : Lookup(name) = 0
  /\ \A i \in 1..Len(registry) : Lookup(registry[i]) = i
  /\ [](registry = tools)
  /\ [][/\ registry' = registry
        /\ pc = "tools" =>
             /\ Lookup(CurrentCall.Name) = FirstExact(CurrentCall.Name)
             /\ (invoked' # invoked \/ pc' = "panic")
                  <=> \E i \in 1..Len(registry) : registry[i] = CurrentCall.Name]_vars

\* a call of a registered name was looked up and its handler invoked, then
\* a call of a name in another case was answered with "tool not found"
C21_Witness ==
  /\ registry = tools
  /\ invoked # <<>>
  /\ lastEvent = "notfound"
  /\ assistantMessage.ToolCalls[Len(assistantMessage.ToolCalls)].Name = "Read_File"
  /\ Last(conversation).Content = "tool not found"

\* ---------------------------------------------- the older variant of the loop
\* src/unnamed/part_001: the same program without create_website, whose Run
\* returns the error of a failed completion call.
toolsOld == SubSeq(tools, 1, Len(tools) - 1)

InitOld ==
  /\ conversation = <<>>
  /\ readUserInput = TRUE
  /\ assistantMessage = NoMessage
  /\ idx = 0
  /\ pc = "loop"
  /\ ret = "none"
  /\ input \in {[i \in 1..n |-> "hello"] : n \in 0..MaxInput}
  /\ calls = 0
  /\ invoked = <<>>
  /\ printed = 0
  /\ lastEvent = "start"
  /\ registry = toolsOld
  /\ request = NoRequest
  /\ fs = [q \in Universe |-> NoNode]
  /\ lastOp = NoOp
  /\ lastRes = NoResult
  /\ repeated = "no"
  /\ ops = 0
  /\ proc = NoProc

\* the failure branch of the newer variant: print, readUserInput = true, continue
InferenceFailedOld_Continue ==
  /\ pc = "infer" /\ calls < MaxRounds
  /\ calls' = calls + 1
  /\ printed' = printed + 1
  /\ readUserInput' = TRUE
  /\ pc' = "loop"
  /\ lastEvent' = "fail"
  /\ request' = runInference(conversation)
  /\ UNCHANGED registry
  /\ UNCHANGED toolVars
  /\ UNCHANGED << conversation, assistantMessage, idx, ret, input, invoked >>

\* runInference returned an error: Run returns it, and main prints it
InferenceFailedOld ==
  /\ pc = "infer" /\ calls < MaxRounds
  /\ calls' = calls + 1
  /\ printed' = printed + 1
  /\ ret' = "err"
  /\ pc' = "done"
  /\ lastEvent' = "fail"
  /\ request' = runInference(conversation)
  /\ UNCHANGED registry
  /\ UNCHANGED toolVars
  /\ UNCHANGED << conversation, readUserInput, assistantMessage, idx, input, invoked >>

NextOld ==
  \/ ReadUserLine
  \/ EndOfInput
  \/ SkipUserInput
  \/ InferenceFailedOld
  \/ InferenceNoChoices
  \/ InferenceReplied
  \/ DispatchToolCall

SpecOld == InitOld /\ [][NextOld]_vars

\* C22: in the older variant, when a completion call fails Run returns that
\* error at once: no Assistant or ToolResult turn is appended, no further
\* user input is read, and no further completion call or handler is
\* invoked (nothing happens after Run has returned).
C22_OldFailureReturnsError ==
  [][/\ ret = "none"
     /\ lastEvent' = "fail" =>
          /\ pc = "infer"
          /\ ret' = "err"
          /\ pc' = "done"
          /\ conversation' = conversation
          /\ input' = input
          /\ invoked' = invoked
          /\ calls' = calls + 1
     /\ ret' = "err" => lastEvent' = "fail"]_vars

\* the completion call after a tool round failed and Run returned the
\* error, with a line left unread on standard input
C22_Witness ==
  /\ ret = "err"
  /\ pc = "done"
  /\ input # <<>>
  /\ conversation # <<>>
  /\ IsToolResult(Last(conversation))

\* C23: every completion call receives the entire conversation accumulated
\* so far (all turns, in order, none omitted or truncated) together with
\* the descriptors of all registered tools in registry order.
C23_FullConversationAndTools ==
  [][calls' = calls + 1 =>
       /\ request'.Messages = conversation
       /\ Len(request'.Tools) = Len(registry)
       /\ \A i \in 1..Len(registry) :
            request'.Tools[i] = [Type |-> "function", Name |-> registry[i]]]_vars

\* the completion call after a tool round was handed the user turn, the
\* assistant turn and the tool results, and all eleven tools
C23_Witness ==
  /\ calls = 2
  /\ Len(request.Messages) >= 3
  /\ request.Messages[1].Role = RoleUser
  /\ IsAssistant(request.Messages[2])
  /\ IsToolResult(Last(request.Messages))
  /\ Len(request.Tools) = 11
  /\ request.Tools[11].Name = "create_website"

\* the timeout C24 promises, in nanoseconds: the caller's seconds when the
\* field is present and positive, else thirty seconds
PromisedTimeout(in) ==
  IF "timeout" \in DOMAIN in /\ ~in.timeout.neg /\ in.timeout.mag # <<0, 0, 0>>
    THEN in.timeout.mag \o <<0>>
    ELSE <<0, 0, 30, 0>>

\* C24: terminal_run uses the caller-supplied timeout in seconds when it is
\* a positive integer and the default of 30 seconds when the timeout is
\* absent, zero or negative: the command is started, and runs under exactly
\* that deadline.
C24_TimeoutSuppliedOrDefault ==
  lastOp.tool = "terminal_run" =>
    /\ lastRes.cause # "context deadline exceeded"
    /\ proc.phase # "none" =>
         proc.timeout = [neg |-> FALSE, mag |-> PromisedTimeout(lastOp.input)]

\* C25: at every completion call made by Run the conversation is non-empty
\* and its last turn is a User turn or a ToolResult turn, never an
\* Assistant turn; no two Assistant turns are ever adjacent.
C25_CallEndsWithUserOrToolResult ==
  /\ [](pc = "infer" =>
          /\ conversation # <<>>
          /\ Last(conversation).Role \in {RoleUser, RoleTool})
  /\ [](\A i \in 1..(Len(conversation) - 1) :
          ~(IsAssistant(conversation[i]) /\ IsAssistant(conversation[i + 1])))
  /\ [][calls' = calls + 1 =>
          /\ request'.Messages # <<>>
          /\ Last(request'.Messages).Role \in {RoleUser, RoleTool}]_vars

\* a completion call was made on a conversation that ends with the
\* ToolResult turns of an Assistant turn, and a second Assistant turn came
\* back behind them
C25_Witness ==
  /\ calls = 2
  /\ IsToolResult(Last(request.Messages))
  /\ IsAssistant(Last(conversation))
  /\ \E i \in 1..(Len(conversation) - 2) : IsAssistant(conversation[i])

\* Run has stopped: it returned, or the runtime ended the process
Stopped == Terminated \/ Crashed

\* C26: Run can terminate only by input exhaustion at a point where user
\* input is solicited: whenever Run stops, it stops at the top of the loop
\* with readUserInput set and no line left on the input, and returns nil.
C26_TerminatesOnlyOnInputExhaustion ==
  [][(~Stopped /\ Stopped') =>
       /\ pc = "loop" /\ readUserInput /\ input = <<>>
       /\ pc' = "done" /\ ret' = "nil"]_vars

\* only p is gone, with a successful result
RemovedAlone(p) ==
  /\ lastRes'.kind = "ok"
  /\ fs' = [fs EXCEPT ![p] = NoNode]

\* C27: the delete handlers do not check the kind of their target:
\* delete_file on an existing empty directory succeeds and removes it,
\* delete_file on a non-empty directory fails and leaves everything as it
\* was, and delete_folder on an existing regular file succeeds and removes
\* the file.
C27_DeleteIgnoresKind ==
  [][\A p \in ArgPaths :
       /\ (Calls("delete_file", [path |-> p]) /\ fs[p].kind = "dir") =>
            IF \E q \in Universe : IsStrictPrefix(p, q) /\ fs[q].kind # "none"
              THEN lastRes'.kind = "err" /\ fs' = fs
              ELSE RemovedAlone(p) /\ lastRes'.text = "Successfully deleted file"
       /\ (Calls("delete_folder", [path |-> p]) /\ fs[p].kind = "file") =>
            RemovedAlone(p) /\ lastRes'.text = "Successfully deleted directory"]_vars

\* delete_file was turned down by a directory that has entries
C27_Witness ==
  /\ lastOp.tool = "delete_file"
  /\ lastRes.kind = "err" /\ lastRes.cause = "ENOTEMPTY"
  /\ fs[lastOp.input.path].kind = "dir"
  /\ Below(fs, lastOp.input.path) # {}

\* new in front of every character of s and once more at the end
Interleaved(s, new, t) ==
  LET k == Len(new) IN
  /\ Len(t) = Len(s) * (k + 1) + k
  /\ \A i \in 1..Len(s) :
       /\ SubSeq(t, (i - 1) * (k + 1) + 1, (i - 1) * (k + 1) + k) = new
       /\ t[i * (k + 1)] = s[i]
  /\ SubSeq(t, Len(s) * (k + 1) + 1, Len(t)) = new

\* C28: edit_file with empty old_str and non-empty new_str on the path of a
\* file that already exists does not fail and does not replace the file: it
\* returns "OK" and rewrites the file with new_str inserted before every
\* character and at the end of the old content; an existing empty file
\* becomes exactly new_str.  Nothing else changes.
C28_EmptyOldStrInterleaves ==
  [][\A in \in EditInputs :
       (/\ Calls("edit_file", in)
        /\ ~DecodeFails(in)
        /\ StrField(in, "path") # <<>>
        /\ StrField(in, "old_str") = <<>> /\ StrField(in, "new_str") # <<>>
        /\ fs[StrField(in, "path")].kind = "file") =>
         LET p == StrField(in, "path") IN
         /\ lastRes'.kind = "ok" /\ lastRes'.text = "OK"
         /\ fs'[p].kind = "file"
         /\ Interleaved(fs[p].data, in.new_str, fs'[p].data)
         /\ (fs[p].data = <<>> => fs'[p].data = in.new_str)
         /\ (fs[p].data # <<>> => fs'[p].data # in.new_str)
         /\ \A q \in Universe \ {p} : fs'[q] = fs[q]]_vars

\* a file that held "A" holds "BAB" after edit_file with an empty old_str
\* and new_str "B"
C28_Witness ==
  /\ lastOp = CallOf("edit_file", [path |-> <<"a.txt">>, old_str |-> <<>>, new_str |-> <<"B">>])
  /\ lastRes.kind = "ok" /\ lastRes.text = "OK"
  /\ fs[<<"a.txt">>] = FileNode(<<"B", "A", "B">>)

====
